---- MODULE Spec2Model ----
(***************************************************************************)
(* Room broadcast over websockets: src/main.py, lines 212-250.             *)
(*                                                                         *)
(* One coroutine (websocket_endpoint) runs per connection on a single      *)
(* asyncio event loop.  Code between two awaits runs without interleaving, *)
(* so every action below is one such segment: from the resumption of an    *)
(* await (accept, receive_text, send_text) to the next await or to the end *)
(* of the coroutine.  The client side of a transport (frames arriving, the *)
(* transport closing) and task cancellation are the environment.           *)
(***************************************************************************)
EXTENDS Integers, Sequences, FiniteSets, Bags, TLC

\* Bounds of the model.
NumHandles == 2
MaxFrames == 2

Handles == 1..NumHandles
Rooms == {"general", "clinic42"}

\* The payload of the k-th text frame the client of h sends: every frame carries
\* its own text, so a text that is altered or mixed up on the way is visible.
ClientText(h, k) == <<"text", h, k>>

VARIABLES
    connections,  \* the dict `connections`: room -> set of websockets (only created rooms)
    room,         \* room[h]: the path parameter `room` of h's websocket_endpoint call
    pc,           \* pc[h]: where h's coroutine is suspended
    closed,       \* closed[h]: h's transport has been closed (disconnect or transport error)
    inbound,      \* inbound[h]: frames of h's client queued for receive_text
    framesSent,   \* frames the clients have sent so far, all together
    nrecv,        \* nrecv[h]: how many frames h's handler has received
    pending,      \* pending[h]: what the `for ws in list(...)` loop of h's _broadcast has left
    to_remove,    \* to_remove[h]: the local list `to_remove` of h's _broadcast
    inbox,        \* inbox[h][x]: the <<number, text>> frames of sender x that send_text
                  \* has delivered to h's client, in the order of delivery
    passStart,    \* passStart[h]: connections[room] when h's current/last _broadcast began
    passText,     \* passText[h]: the text receive_text returned for that _broadcast
    attempts,     \* attempts[h]: bag of <<ws, text>> send_text calls of that _broadcast
    leaveRaised,  \* the handlers whose cleanup in the finally clause raised
    cancelled     \* the handlers whose task was cancelled inside _broadcast

vars == <<connections, room, pc, closed, inbound, framesSent, nrecv, pending,
          to_remove, inbox, passStart, passText, attempts, leaveRaised, cancelled>>

NoRooms == [r \in {} |-> {}]

\* True when h is in the member set of r (a room never created has no members).
Member(conns, r, h) == r \in DOMAIN conns /\ h \in conns[r]

----------------------------------------------------------------------------
\* Registry operations

\* set.remove(x): removes x, raises KeyError when x is absent.
SetRemove(s, x) == [set |-> s \ {x}, raised |-> x \notin s]

\* A join whose rooms all share one set object: the handle shows up in every room.
Join_shared(conns, r, ws) ==
    [x \in DOMAIN conns \cup {r} |->
        (IF x \in DOMAIN conns THEN conns[x] ELSE {}) \cup {ws}]

\* if room not in connections: connections[room] = set(); connections[room].add(websocket)
Join(conns, r, ws) ==
    IF r \notin DOMAIN conns
    THEN (r :> {ws}) @@ conns
    ELSE [conns EXCEPT ![r] = @ \cup {ws}]

\* The same cleanup with the KeyError left to propagate.
Leave_noexcept(conns, r, ws) ==
    IF r \notin DOMAIN conns
    THEN [conns |-> conns, raised |-> TRUE]
    ELSE [conns |-> [conns EXCEPT ![r] = SetRemove(@, ws).set],
          raised |-> SetRemove(conns[r], ws).raised]

\* try: connections[room].remove(websocket) / except Exception: pass
Leave(conns, r, ws) ==
    IF r \notin DOMAIN conns
    THEN [conns |-> conns, raised |-> FALSE]
    ELSE [conns |-> [conns EXCEPT ![r] = SetRemove(@, ws).set],
          raised |-> FALSE]

\* An eviction loop that drops every member of the room.
Evict_all(conns, r, S) ==
    IF r \in DOMAIN conns THEN [conns EXCEPT ![r] = {}] ELSE conns

\* for ws in to_remove: try: connections[room].remove(ws) / except Exception: pass
RECURSIVE Evict(_, _, _)
Evict(conns, r, S) ==
    IF S = {} THEN conns
    ELSE LET ws == CHOOSE x \in S : TRUE
         IN Evict([conns EXCEPT ![r] = SetRemove(@, ws).set], r, S \ {ws})

\* A copy that takes the members of every room.
Snapshot_allrooms(conns, r) == UNION {conns[x] : x \in DOMAIN conns}

\* list(connections[room]): a point-in-time copy of the member set.
Snapshot(conns, r) == conns[r]

----------------------------------------------------------------------------
Init ==
    /\ connections = NoRooms
    /\ room \in [Handles -> Rooms]
    /\ pc = [h \in Handles |-> "Connecting"]
    /\ closed = [h \in Handles |-> FALSE]
    /\ inbound = [h \in Handles |-> 0]
    /\ framesSent = 0
    /\ nrecv = [h \in Handles |-> 0]
    /\ pending = [h \in Handles |-> {}]
    /\ to_remove = [h \in Handles |-> {}]
    /\ inbox = [h \in Handles |-> [x \in Handles |-> <<>>]]
    /\ passStart = [h \in Handles |-> {}]
    /\ passText = [h \in Handles |-> <<>>]
    /\ attempts = [h \in Handles |-> EmptyBag]
    /\ leaveRaised = {}
    /\ cancelled = {}

----------------------------------------------------------------------------
\* websocket_endpoint: the handler of one connection

\* A handler that takes the next frame while its broadcast is still running.
CanReceive_overlap(h) == pc[h] \in {"Receiving", "Sending"}

\* `await _broadcast(room, data)` inside `while True`: the next receive_text is
\* reached only after the broadcast of the previous frame has returned.
CanReceive(h) == pc[h] = "Receiving"

\* A cleanup that runs only in the WebSocketDisconnect branch.
ExitLoop_onlyDisconnect(h, why) ==
    LET l == IF why = "returned"
             THEN Leave(connections, room[h], h)
             ELSE [conns |-> connections, raised |-> FALSE]
    IN /\ connections' = l.conns
       /\ pc' = [pc EXCEPT ![h] = "Closed"]
       /\ leaveRaised' = IF l.raised THEN leaveRaised \cup {h} ELSE leaveRaised
       /\ inbound' = [inbound EXCEPT ![h] = 0]
       /\ nrecv' = [nrecv EXCEPT ![h] = 0]
       /\ pending' = [pending EXCEPT ![h] = {}]
       /\ to_remove' = [to_remove EXCEPT ![h] = {}]
       /\ passStart' = [passStart EXCEPT ![h] = {}]
       /\ passText' = [passText EXCEPT ![h] = <<>>]
       /\ attempts' = [attempts EXCEPT ![h] = EmptyBag]

\* except WebSocketDisconnect: pass / finally: try: remove / except Exception: pass.
\* Every exception that leaves the try block passes through the finally clause;
\* the coroutine then ends (returning, or re-raising what was not a disconnect).
ExitLoop(h, why) ==
    LET l == Leave(connections, room[h], h)
    IN /\ connections' = l.conns
       /\ pc' = [pc EXCEPT ![h] = "Closed"]
       /\ leaveRaised' = IF l.raised THEN leaveRaised \cup {h} ELSE leaveRaised
       /\ inbound' = [inbound EXCEPT ![h] = 0]
       /\ nrecv' = [nrecv EXCEPT ![h] = 0]
       /\ pending' = [pending EXCEPT ![h] = {}]
       /\ to_remove' = [to_remove EXCEPT ![h] = {}]
       /\ passStart' = [passStart EXCEPT ![h] = {}]
       /\ passText' = [passText EXCEPT ![h] = <<>>]
       /\ attempts' = [attempts EXCEPT ![h] = EmptyBag]

\* await websocket.accept() returns; the handle joins its room and the handler
\* suspends in receive_text.
Accept(h) ==
    /\ pc[h] = "Connecting"
    /\ connections' = Join(connections, room[h], h)
    /\ pc' = [pc EXCEPT ![h] = "Receiving"]
    /\ UNCHANGED <<room, closed, inbound, framesSent, nrecv, pending, to_remove,
                   inbox, passStart, passText, attempts, leaveRaised, cancelled>>

\* A handler that joins its room before the handshake, so that a failed accept
\* leaves the handle behind.
AcceptFail_joined(h) ==
    /\ pc[h] = "Connecting"
    /\ connections' = Join(connections, room[h], h)
    /\ pc' = [pc EXCEPT ![h] = "Closed"]
    /\ closed' = [closed EXCEPT ![h] = TRUE]
    /\ UNCHANGED <<room, inbound, framesSent, nrecv, pending,
                   to_remove, inbox, passStart, passText, attempts, leaveRaised, cancelled>>

\* await websocket.accept() raises: accept is outside the try block, the
\* coroutine ends without having joined.
AcceptFail(h) ==
    /\ pc[h] = "Connecting"
    /\ pc' = [pc EXCEPT ![h] = "Closed"]
    /\ closed' = [closed EXCEPT ![h] = TRUE]
    /\ UNCHANGED <<connections, room, inbound, framesSent, nrecv, pending,
                   to_remove, inbox, passStart, passText, attempts, leaveRaised, cancelled>>

\* The text of the next text frame in h's receive queue.
NextText(h) == ClientText(h, nrecv[h] + 1)

\* receive_text returns the text of the next frame and _broadcast(room, data)
\* starts: the early return when the room is unknown, to_remove = [], the copy
\* of the member set, and the first await of send_text (or, with an empty copy,
\* the return to receive_text).  pending[h] is empty when this runs.
ReceiveText(h) ==
    /\ CanReceive(h)
    /\ inbound[h] > 0
    /\ inbound' = [inbound EXCEPT ![h] = @ - 1]
    /\ nrecv' = [nrecv EXCEPT ![h] = @ + 1]
    /\ passText' = [passText EXCEPT ![h] = NextText(h)]
    /\ attempts' = [attempts EXCEPT ![h] = EmptyBag]
    /\ to_remove' = [to_remove EXCEPT ![h] = {}]
    /\ LET known == room[h] \in DOMAIN connections
           snap == IF known THEN Snapshot(connections, room[h]) ELSE {}
           frame == <<h, nrecv[h] + 1, NextText(h)>>
       IN /\ passStart' = [passStart EXCEPT ![h] = IF known THEN connections[room[h]] ELSE {}]
          /\ pending' = [pending EXCEPT ![h] = @ \cup {<<ws, frame>> : ws \in snap}]
          /\ pc' = [pc EXCEPT ![h] = IF snap = {} THEN @ ELSE "Sending"]
    /\ UNCHANGED <<connections, room, closed, framesSent, inbox, leaveRaised, cancelled>>

\* receive_text raises WebSocketDisconnect: the queued frames are used up and
\* the transport is closed.
ReceiveDisconnect(h) ==
    /\ pc[h] = "Receiving"
    /\ inbound[h] = 0
    /\ closed[h]
    /\ ExitLoop(h, "returned")
    /\ UNCHANGED <<room, closed, framesSent, inbox, cancelled>>

\* receive_text raises something else (the frame is not a text frame, the task
\* is cancelled while it waits): not caught by `except WebSocketDisconnect`, the
\* finally clause runs and the exception propagates.
ReceiveError(h) ==
    /\ pc[h] = "Receiving"
    /\ ExitLoop(h, "raised")
    /\ UNCHANGED <<room, closed, framesSent, inbox, cancelled>>

----------------------------------------------------------------------------
\* _broadcast: the delivery pass

\* A loop over the live member set instead of the copy: members that joined
\* after the pass began are still to be sent to.
Remaining_live(h) ==
    IF pending[h] = {} THEN {}
    ELSE pending[h] \cup
         {<<ws, p[2]>> : ws \in {w \in connections[room[h]] :
                                    ~BagIn(<<w, passText[h]>>, attempts[h])},
                         p \in pending[h]}

\* What the `for ws in list(connections[room])` loop has not yet visited.
Remaining(h) == pending[h]

\* The end of one loop iteration: the next await of send_text, or, after the last
\* member, the eviction loop over to_remove and the return to receive_text.
FinishSend(h, ws, f, failed) ==
    LET rest == pending[h] \ {<<ws, f>>}
        rem == IF failed THEN to_remove[h] \cup {ws} ELSE to_remove[h]
    IN /\ pending' = [pending EXCEPT ![h] = rest]
       /\ to_remove' = [to_remove EXCEPT ![h] = rem]
       /\ attempts' = [attempts EXCEPT ![h] = @ (+) SetToBag({<<ws, f[3]>>})]
       /\ IF rest = {}
          THEN /\ connections' = Evict(connections, room[h], rem)
               /\ pc' = [pc EXCEPT ![h] = "Receiving"]
          ELSE UNCHANGED <<connections, pc>>
       /\ UNCHANGED <<passStart, passText, leaveRaised>>

\* await ws.send_text(message) returns: the frame reaches ws's client.
SendOk(h, ws, f) ==
    /\ pc[h] = "Sending"
    /\ <<ws, f>> \in Remaining(h)
    /\ ~closed[ws]
    /\ inbox' = [inbox EXCEPT ![ws][f[1]] = Append(@, <<f[2], f[3]>>)]
    /\ FinishSend(h, ws, f, FALSE)
    /\ UNCHANGED <<room, closed, inbound, framesSent, nrecv, cancelled>>

\* A send failure that is not caught: it leaves _broadcast and the handler.
SendFail_abort(h, ws, f) ==
    /\ pc[h] = "Sending"
    /\ <<ws, f>> \in Remaining(h)
    /\ ExitLoop(h, "raised")
    /\ UNCHANGED <<room, closed, framesSent, inbox, cancelled>>

\* await ws.send_text(message) raises an Exception (always when ws's transport
\* is closed, possibly when it is open): except Exception: to_remove.append(ws).
SendFail(h, ws, f) ==
    /\ pc[h] = "Sending"
    /\ <<ws, f>> \in Remaining(h)
    /\ FinishSend(h, ws, f, TRUE)
    /\ UNCHANGED <<room, closed, inbound, framesSent, nrecv, inbox, cancelled>>

----------------------------------------------------------------------------
\* Environment

\* The client of h sends a frame; it waits in the receive queue.
ClientSend(h) ==
    /\ pc[h] \in {"Receiving", "Sending"}
    /\ ~closed[h]
    /\ framesSent < MaxFrames
    /\ framesSent' = framesSent + 1
    /\ inbound' = [inbound EXCEPT ![h] = @ + 1]
    /\ UNCHANGED <<connections, room, pc, closed, nrecv, pending, to_remove,
                   inbox, passStart, passText, attempts, leaveRaised, cancelled>>

\* The transport of h closes: the client disconnects or the connection breaks.
\* No code of the handler runs at this moment.
Disconnect(h) ==
    /\ pc[h] \in {"Receiving", "Sending"}
    /\ ~closed[h]
    /\ closed' = [closed EXCEPT ![h] = TRUE]
    /\ UNCHANGED <<connections, room, pc, inbound, framesSent, nrecv, pending,
                   to_remove, inbox, passStart, passText, attempts, leaveRaised, cancelled>>

\* The handler's task is cancelled while it awaits send_text (server shutdown):
\* CancelledError is no Exception, so neither `except Exception` in _broadcast
\* nor `except WebSocketDisconnect` catches it; it escapes _broadcast and the
\* finally clause runs.
Cancel(h) ==
    /\ pc[h] = "Sending"
    /\ cancelled' = cancelled \cup {h}
    /\ ExitLoop(h, "raised")
    /\ UNCHANGED <<room, closed, framesSent, inbox>>

----------------------------------------------------------------------------
HandlerStep(h) ==
    \/ Accept(h)
    \/ AcceptFail(h)
    \/ ReceiveText(h)
    \/ ReceiveDisconnect(h)
    \/ ReceiveError(h)
    \/ \E p \in Remaining(h) : SendOk(h, p[1], p[2])
    \/ \E p \in Remaining(h) : SendFail(h, p[1], p[2])

Next ==
    \/ \E h \in Handles : HandlerStep(h)
    \/ \E h \in Handles : ClientSend(h)
    \/ \E h \in Handles : Disconnect(h)
    \/ \E h \in Handles : Cancel(h)

Spec == Init /\ [][Next]_vars

\* Every handler that can take a step eventually takes one (the event loop runs
\* every ready coroutine; a pending await of send_text either returns or raises).
FairSpec == Spec /\ \A h \in Handles : WF_vars(HandlerStep(h))

----------------------------------------------------------------------------
\* Shorthands of the properties

\* h's handler has joined and has not ended.
InLoop(h) == pc[h] \in {"Receiving", "Sending"}

\* h's handler is back in receive_text after a _broadcast that has returned.
PassReturned(h) == pc[h] = "Receiving" /\ nrecv[h] > 0

\* h is in some room's member set.
Joined(h) == \E r \in Rooms : Member(connections, r, h)

\* The <<number, text>> frames of sender x delivered to w.
Delivered(w, x) == {inbox[w][x][i] : i \in 1..Len(inbox[w][x])}

----------------------------------------------------------------------------
\* C1 as stated: a handle whose transport has closed is in no member set.
C1_ClosedNeverMember ==
    \A h \in Handles, r \in Rooms : closed[h] => ~Member(connections, r, h)

\* C1, amended: a handle whose transport has closed is still in a member set
\* only while its own handler has not ended (it waits in receive_text or is
\* suspended inside _broadcast), and then only in the room of its own path.
C1_ClosedMemberStillRunning ==
    \A h \in Handles, r \in Rooms :
        (closed[h] /\ Member(connections, r, h)) => (InLoop(h) /\ r = room[h])

\* h's transport has closed while h's handler is suspended inside _broadcast,
\* awaiting the send to another member, and h is still a member.
C1_Witness ==
    \E h, g \in Handles :
        /\ h # g
        /\ closed[h] /\ pc[h] = "Sending"
        /\ Member(connections, room[h], h)
        /\ \E p \in pending[h] : p[1] = g

\* C2: every exit from the receive loop runs the leave step: a handler that has
\* ended never has its handle in a member set, and, when every handler keeps
\* running, a joined connection whose transport has closed eventually reaches
\* Closed with its handle absent from its room.
C2_EveryExitLeaves ==
    /\ [](\A h \in Handles : pc[h] = "Closed" => ~Joined(h))
    /\ \A h \in Handles :
          (InLoop(h) /\ closed[h]) ~> (pc[h] = "Closed" /\ ~Joined(h))

\* One handler left its loop because an exception escaped _broadcast, another,
\* which had received a message in the room, left it after its transport had
\* closed; both are Closed and out of the room.
C2_Witness ==
    \E h, g \in Handles :
        /\ h # g
        /\ pc[h] = "Closed" /\ h \in cancelled /\ ~Joined(h)
        /\ pc[g] = "Closed" /\ closed[g] /\ inbox[g][h] # <<>> /\ ~Joined(g)

\* What a _broadcast by h attempts when it sends to its whole room exactly once.
FullPass(h) == SetToBag({<<w, passText[h]>> : w \in passStart[h]})

\* conns with the handles of S taken out of room r and nothing else changed.
Without(conns, r, S) ==
    [x \in DOMAIN conns |-> IF x = r THEN conns[x] \ S ELSE conns[x]]

\* C3: whatever subset of the members fails during a _broadcast, every member
\* of the copy is attempted, every member that did not fail has received the
\* message, no failed handle is left in the room when the broadcast returns,
\* and the broadcast returns to the receive loop: a handler leaves _broadcast
\* for Closed only when its task is cancelled, never because a send failed.
C3_BroadcastIsolation ==
    /\ [](\A h \in Handles : PassReturned(h) =>
            /\ \A w \in passStart[h] : BagIn(<<w, passText[h]>>, attempts[h])
            /\ \A w \in passStart[h] \ to_remove[h] :
                  <<nrecv[h], passText[h]>> \in Delivered(w, h)
            /\ \A w \in to_remove[h] : ~Member(connections, room[h], w))
    /\ [][\A h \in Handles :
            (pc[h] = "Sending" /\ pc'[h] # "Sending") =>
                (pc'[h] = "Receiving" \/ h \in cancelled')]_vars

\* A broadcast has returned in which the send to one member failed and another
\* member received the message.
C3_Witness ==
    \E h \in Handles :
        /\ PassReturned(h)
        /\ to_remove[h] # {}
        /\ passStart[h] \ to_remove[h] # {}

\* C4 as stated: after the delivery pass every handle whose send failed is out
\* of the room and its transport is closed.
C4_EvictedIsClosed ==
    \A h \in Handles : PassReturned(h) =>
        \A w \in to_remove[h] : ~Member(connections, room[h], w) /\ closed[w]

\* C5: nothing received from a connection of one room is sent, or about to be
\* sent, or delivered to a handle opened on another room.
C5_NoCrossRoom ==
    \A h \in Handles :
        /\ \A p \in pending[h] : room[p[1]] = room[h]
        /\ \A a \in BagToSet(attempts[h]) : room[a[1]] = room[h]
        /\ \A w \in Handles : inbox[w][h] # <<>> => room[w] = room[h]

\* A broadcast in one room has delivered its message and returned while a
\* handle of the other room was joined; that handle has received nothing.
C5_Witness ==
    \E h, g \in Handles :
        /\ room[h] # room[g]
        /\ PassReturned(h) /\ inbox[h][h] # <<>>
        /\ Member(connections, room[g], g)
        /\ inbox[g][h] = <<>>

\* C6: a handle is in at most one room's member set, and that room is the one
\* named in its own connection path.
C6_SingleRoom ==
    \A h \in Handles, r1, r2 \in Rooms :
        (Member(connections, r1, h) /\ Member(connections, r2, h)) =>
            (r1 = r2 /\ r1 = room[h])

\* Two rooms exist, each with a member.
C6_Witness ==
    \E h, g \in Handles :
        /\ room[h] # room[g]
        /\ Member(connections, room[h], h)
        /\ Member(connections, room[g], g)

\* C7: leave is total and idempotent: removing an absent handle raises nothing
\* and changes nothing, removing twice gives what removing once gives; the
\* cleanup of a handler and the eviction of a broadcast each take exactly their
\* handles out of the room and leave every other member alone, in whichever
\* order they meet, and no cleanup ever raises.
C7_LeaveIdempotentTotal ==
    /\ [](/\ leaveRaised = {}
          /\ \A r \in Rooms, h \in Handles :
                LET once == Leave(connections, r, h)
                    twice == Leave(once.conns, r, h)
                IN /\ ~once.raised /\ ~twice.raised
                   /\ twice.conns = once.conns
                   /\ ~Member(once.conns, r, h)
                   /\ ~Member(connections, r, h) => once.conns = connections)
    /\ [][\A h \in Handles :
            /\ (InLoop(h) /\ pc'[h] = "Closed") =>
                  connections' = Without(connections, room[h], {h})
            /\ (pc[h] = "Sending" /\ pc'[h] = "Receiving") =>
                  connections' = Without(connections, room[h], to_remove'[h])]_vars

\* Another connection's broadcast has evicted h, h's own handler has run its
\* cleanup as well, and the evicting member is still in the room.
C7_Witness ==
    \E h, g \in Handles :
        /\ h # g
        /\ PassReturned(g) /\ h \in to_remove[g]
        /\ Member(connections, room[g], g)
        /\ pc[h] = "Closed" /\ h \notin cancelled
        /\ leaveRaised = {}

\* C8 as stated: a broadcast attempts exactly the members at its start, each
\* once with the text received, and the sender is among them.
C8_SnapshotWithSender ==
    \A h \in Handles : PassReturned(h) =>
        /\ attempts[h] = FullPass(h)
        /\ BagIn(<<h, passText[h]>>, attempts[h])

\* C8, amended: a broadcast attempts exactly the handles that were members of
\* the room when it started, each once and with the text received; a handle
\* that joins later is not attempted, one that leaves or closes meanwhile
\* still is; the sender is not excluded, so it is attempted whenever it is
\* itself a member at the start; every text delivered is the text sent.
C8_SnapshotPass ==
    /\ \A h \in Handles :
        /\ pc[h] = "Sending" =>
              /\ attempts[h] \sqsubseteq FullPass(h)
              /\ {p[1] : p \in pending[h]} \cup {a[1] : a \in BagToSet(attempts[h])}
                    = passStart[h]
              /\ \A p \in pending[h] : p[2][3] = passText[h]
        /\ PassReturned(h) =>
              /\ attempts[h] = FullPass(h)
              /\ h \in passStart[h] => BagIn(<<h, passText[h]>>, attempts[h])
    /\ \A w, x \in Handles :
          \A e \in Delivered(w, x) : e[2] = ClientText(x, e[1])

\* A broadcast has returned; a handle that joined its room after it began has
\* received nothing of it, and a member of the copy whose send failed was
\* attempted all the same.
C8_Witness ==
    \E h, g \in Handles :
        /\ h # g
        /\ PassReturned(h)
        /\ g \notin passStart[h]
        /\ Member(connections, room[h], g)
        /\ inbox[g][h] = <<>>
        /\ to_remove[h] # {}

\* C9 as stated: only steps of the handle's own handler change its membership;
\* no step of another connection's handler, a broadcast it runs included, adds
\* or removes the handle.
C9_OnlyOwnLifecycle ==
    [][\A h \in Handles : (Joined(h) # Joined(h)') => pc'[h] # pc[h]]_vars

\* C9, amended: a handle is added only by its own handler's join after accept,
\* and only to its own room; it is removed either by its own handler's cleanup
\* or by the eviction step of a broadcast in its room (of any handler, its own
\* included) during which the send to it failed.
C9_MembershipChanges ==
    [][\A h \in Handles :
        /\ (~Joined(h) /\ Joined(h)') =>
              /\ pc[h] = "Connecting" /\ pc'[h] = "Receiving"
              /\ Member(connections', room[h], h)
        /\ (Joined(h) /\ ~Joined(h)') =>
              \/ InLoop(h) /\ pc'[h] = "Closed"
              \/ \E g \in Handles :
                    /\ pc[g] = "Sending" /\ pc'[g] = "Receiving"
                    /\ room[g] = room[h]
                    /\ h \in to_remove'[g]]_vars

\* A connection is waiting in its receive loop after the broadcast of another
\* connection has removed it from the room.
C9_Witness ==
    \E h, g \in Handles :
        /\ h # g
        /\ pc[h] = "Receiving" /\ ~Joined(h)
        /\ PassReturned(g) /\ h \in to_remove[g]
        /\ Member(connections, room[g], g)

\* C10: the frames of one sender reach every handle in the order in which the
\* sender's handler received them.
C10_PerSenderOrder ==
    \A w, x \in Handles :
        \A i, j \in 1..Len(inbox[w][x]) :
            i < j => inbox[w][x][i][1] < inbox[w][x][j][1]

\* Two messages of one sender have both been delivered to another handle.
C10_Witness ==
    \E w, x \in Handles : w # x /\ Len(inbox[w][x]) = 2

====
